---- MODULE Spec2Model ----
(***************************************************************************)
(* Model of knight-moves (src/main.rs): a breadth-first search for a       *)
(* knight path on a 10x10 board that balances the marks per row, per       *)
(* column and per region, guided by a table of waypoints.                  *)
(***************************************************************************)
EXTENDS Integers, Sequences, FiniteSets, TLC

VARIABLES
    region_list,   \* main: the region table (Rc<Vec<Vec<Position>>>)
    ref_regions,   \* main: reverse lookup, cell index -> region id
    waypoints,     \* main: the waypoint table
    flows,         \* main: the frontier to expand next
    ps,            \* main: the frontier just produced (ps / vec)
    wi,            \* main: number of waypoints consumed by the for loop
    add,           \* main: the unguided round counter
    pc,            \* main: "waypoints", "unguided" or "done"
    reported,      \* main: the state printed after "bingo!", as <<state>>
    in_destination,   \* paths_to: the argument destination
    in_moves_left,    \* paths_to: the argument moves_left
    rec_moves_left,   \* paths_to: moves_left of the recursive call in progress
    in_self,          \* raw_index: the receiver self
    index             \* raw_index: the returned index

vars == <<region_list, ref_regions, waypoints, flows, ps, wi, add, pc, reported,
          in_destination, in_moves_left, rec_moves_left,
          in_self, index>>

BOARD_WIDTH == 10
BOARD_HEIGHT == 10

\* fn pos
pos(x, y) == [x |-> x, y |-> y]

\* raw_index with a row stride of BOARD_WIDTH - 1
raw_index_short_row(p) == p.y * (BOARD_WIDTH - 1) + p.x

\* Position::raw_index
raw_index(p) == p.y * BOARD_WIDTH + p.x

\* the counting loop `for p in region { if board[p.raw_index()] { r += 1 } }`
RECURSIVE count_marked(_, _, _)
count_marked(region, board, k) ==
    IF k = 0 THEN 0
    ELSE count_marked(region, board, k - 1)
         + (IF board[raw_index(region[k])] THEN 1 ELSE 0)

\* add_move_if_able with the cap test written `r <= 5`
add_move_if_able_cap6(possible_moves, p, state) ==
    LET i == raw_index(p)
        potential_region_idx == ref_regions[i]
        potential_region == region_list[potential_region_idx + 1]
        r == count_marked(potential_region, state.board, Len(potential_region))
    IN  IF potential_region_idx # state.current_region /\ ~state.board[i] /\ r <= 5
        THEN Append(possible_moves, p)
        ELSE possible_moves

\* add_move_if_able with the cap test written `r < 4`
add_move_if_able_cap4(possible_moves, p, state) ==
    LET i == raw_index(p)
        potential_region_idx == ref_regions[i]
        potential_region == region_list[potential_region_idx + 1]
        r == count_marked(potential_region, state.board, Len(potential_region))
    IN  IF potential_region_idx # state.current_region /\ ~state.board[i] /\ r < 4
        THEN Append(possible_moves, p)
        ELSE possible_moves

\* add_move_if_able without the cap test `r < 5`
add_move_if_able_nocap(possible_moves, p, state) ==
    LET i == raw_index(p)
        potential_region_idx == ref_regions[i]
    IN  IF potential_region_idx # state.current_region /\ ~state.board[i]
        THEN Append(possible_moves, p)
        ELSE possible_moves

\* add_move_if_able without the test `!state.board[i]`
add_move_if_able_marked(possible_moves, p, state) ==
    LET i == raw_index(p)
        potential_region_idx == ref_regions[i]
        potential_region == region_list[potential_region_idx + 1]
        r == count_marked(potential_region, state.board, Len(potential_region))
    IN  IF potential_region_idx # state.current_region /\ r < 5
        THEN Append(possible_moves, p)
        ELSE possible_moves

\* Position::add_move_if_able: possible_moves after the call
add_move_if_able(possible_moves, p, state) ==
    LET i == raw_index(p)
        potential_region_idx == ref_regions[i]
        potential_region == region_list[potential_region_idx + 1]
        r == count_marked(potential_region, state.board, Len(potential_region))
    IN  IF potential_region_idx # state.current_region /\ ~state.board[i] /\ r < 5
        THEN Append(possible_moves, p)
        ELSE possible_moves

\* Position::all_moves_with_restrictions
all_moves_with_restrictions(self, state) ==
    LET x == self.x
        y == self.y
        m1 == IF x < BOARD_WIDTH - 1 /\ y < BOARD_HEIGHT - 2
              THEN add_move_if_able(<<>>, pos(x + 1, y + 2), state) ELSE <<>>
        m2 == IF x < BOARD_WIDTH - 1 /\ y > 1
              THEN add_move_if_able(m1, pos(x + 1, y - 2), state) ELSE m1
        m3 == IF x > 0 /\ y < BOARD_HEIGHT - 2
              THEN add_move_if_able(m2, pos(x - 1, y + 2), state) ELSE m2
        m4 == IF x > 0 /\ y > 1
              THEN add_move_if_able(m3, pos(x - 1, y - 2), state) ELSE m3
        m5 == IF x < BOARD_WIDTH - 2 /\ y < BOARD_HEIGHT - 1
              THEN add_move_if_able(m4, pos(x + 2, y + 1), state) ELSE m4
        m6 == IF x < BOARD_WIDTH - 2 /\ y > 0
              THEN add_move_if_able(m5, pos(x + 2, y - 1), state) ELSE m5
        m7 == IF x > 1 /\ y < BOARD_HEIGHT - 1
              THEN add_move_if_able(m6, pos(x - 2, y + 1), state) ELSE m6
        m8 == IF x > 1 /\ y > 0
              THEN add_move_if_able(m7, pos(x - 2, y - 1), state) ELSE m7
    IN  m8

\* GameState::all_moves
all_moves(state) == all_moves_with_restrictions(state.current_position, state)

\* add_move without the update of current_region
add_move_stale_region(self, p) ==
    LET i == raw_index(p)
    IN  [board            |-> [self.board EXCEPT ![i] = TRUE],
         history          |-> Append(self.history, p),
         current_position |-> p,
         current_region   |-> self.current_region]

\* GameState::add_move: the state after the in-place mutation
add_move(self, p) ==
    LET i == raw_index(p)
    IN  [board            |-> [self.board EXCEPT ![i] = TRUE],
         history          |-> Append(self.history, p),
         current_position |-> p,
         current_region   |-> ref_regions[i]]

\* into_move without the clone: add_move is applied to self
into_move_in_place(self, p) ==
    [self |-> add_move(self, p), new |-> add_move(self, p)]

\* GameState::into_move: self after the call, and the returned state
into_move(self, p) ==
    LET new == self            \* self.clone()
    IN  [self |-> self, new |-> add_move(new, p)]

\* GameState::new
new_GameState ==
    LET gs == [board            |-> [i \in 0 .. (BOARD_WIDTH * BOARD_HEIGHT - 1) |-> FALSE],
               current_position |-> pos(0, 0),
               current_region   |-> 0,
               history          |-> <<>>]
    IN  add_move(gs, pos(0, 0))

\* GameState::count_in_row
RECURSIVE count_in_row_upto(_, _, _)
count_in_row_upto(self, i, n) ==
    IF n = 0 THEN 0
    ELSE count_in_row_upto(self, i, n - 1)
         + (IF self.board[raw_index(pos(n - 1, i))] THEN 1 ELSE 0)

\* count_in_row with the loop `for x in 0 .. BOARD_WIDTH - 1`
count_in_row_short(self, i) == count_in_row_upto(self, i, BOARD_WIDTH - 1)

count_in_row(self, i) == count_in_row_upto(self, i, BOARD_WIDTH)

\* GameState::count_in_col
RECURSIVE count_in_col_upto(_, _, _)
count_in_col_upto(self, i, n) ==
    IF n = 0 THEN 0
    ELSE count_in_col_upto(self, i, n - 1)
         + (IF self.board[raw_index(pos(i, n - 1))] THEN 1 ELSE 0)

count_in_col(self, i) == count_in_col_upto(self, i, BOARD_HEIGHT)

\* GameState::check, closure cl_rows_equal
cl_rows_equal(self) ==
    LET r_count == count_in_row(self, 0)
    IN  \A i \in 1 .. (BOARD_HEIGHT - 1) : count_in_row(self, i) = r_count

\* GameState::check, closure cl_cols_equal
cl_cols_equal(self) ==
    LET c_count == count_in_col(self, 0)
    IN  \A i \in 1 .. (BOARD_WIDTH - 1) : count_in_col(self, i) = c_count

\* cl_regions_equal with the loop `for region in self.region_list[.. len - 1]`
cl_regions_equal_in_short(regions, self) ==
    LET first_region == regions[1]
        fr_region_count == count_marked(first_region, self.board, Len(first_region))
    IN  \A k \in 1 .. (Len(regions) - 1) :
            fr_region_count = count_marked(regions[k], self.board, Len(regions[k]))

\* GameState::check, closure cl_regions_equal, for a state whose field
\* region_list holds regions
cl_regions_equal_in(regions, self) ==
    LET first_region == regions[1]
        fr_region_count == count_marked(first_region, self.board, Len(first_region))
    IN  \A k \in 1 .. Len(regions) :
            fr_region_count = count_marked(regions[k], self.board, Len(regions[k]))

\* check without the comparison of the column counts
check_in_rows_regions(regions, self) ==
    cl_rows_equal(self) /\ cl_regions_equal_in(regions, self)

\* GameState::check, for a state whose field region_list holds regions
check_in(regions, self) ==
    cl_rows_equal(self) /\ cl_cols_equal(self) /\ cl_regions_equal_in(regions, self)

\* every state of a run shares the one region table of main
cl_regions_equal(self) == cl_regions_equal_in(region_list, self)

\* GameState::check
check(self) == check_in(region_list, self)

\* fn init_regions
init_regions == <<
    <<pos(0, 0), pos(1, 0), pos(2, 0), pos(3, 0), pos(3, 1), pos(0, 1), pos(0, 2), pos(0, 3)>>,
    <<pos(0, 4), pos(0, 5), pos(0, 6), pos(0, 7), pos(0, 8), pos(0, 9), pos(1, 5)>>,
    <<pos(1, 1), pos(1, 2), pos(2, 1), pos(1, 3), pos(1, 4), pos(2, 3), pos(2, 4), pos(3, 4), pos(3, 5), pos(4, 4), pos(5, 4)>>,
    <<pos(2, 5), pos(2, 6), pos(1, 6), pos(1, 7), pos(1, 8), pos(2, 8)>>,
    <<pos(1, 9), pos(2, 9), pos(3, 9), pos(4, 9), pos(3, 8), pos(3, 7), pos(3, 6), pos(2, 7)>>,
    <<pos(2, 2), pos(3, 2), pos(4, 2), pos(5, 2), pos(6, 2), pos(3, 3), pos(4, 3), pos(5, 3), pos(6, 3), pos(7, 3), pos(6, 4)>>,
    <<pos(4, 0), pos(5, 0), pos(6, 0), pos(7, 0), pos(8, 0), pos(9, 0), pos(4, 1), pos(5, 1), pos(6, 1), pos(7, 1), pos(8, 1)>>,
    <<pos(9, 1), pos(9, 2), pos(9, 3), pos(8, 2), pos(7, 2)>>,
    <<pos(8, 3), pos(8, 4), pos(8, 5), pos(9, 4), pos(9, 5)>>,
    <<pos(5, 5), pos(6, 5), pos(7, 5), pos(7, 4), pos(7, 6), pos(7, 7), pos(8, 6), pos(9, 6)>>,
    <<pos(9, 9), pos(8, 9), pos(7, 9), pos(9, 8), pos(8, 8), pos(7, 8), pos(6, 8), pos(9, 7), pos(8, 7), pos(6, 7), pos(4, 7), pos(6, 6), pos(5, 6), pos(4, 6), pos(4, 5)>>,
    <<pos(6, 9), pos(5, 9), pos(5, 8), pos(5, 7), pos(4, 8)>> >>

\* fn get_region_map: the array after the first n regions have been written
RECURSIVE region_map_upto(_, _)
region_map_upto(regions, n) ==
    IF n = 0 THEN [i \in 0 .. (BOARD_WIDTH * BOARD_HEIGHT - 1) |-> 0]
    ELSE LET blank == region_map_upto(regions, n - 1)
             v == regions[n]
             written == {raw_index(v[j]) : j \in 1 .. Len(v)}
         IN  [i \in 0 .. (BOARD_WIDTH * BOARD_HEIGHT - 1) |->
                 IF i \in written THEN n - 1 ELSE blank[i]]

\* get_region_map with the last region of the table not written
get_region_map_but_last(regions) == region_map_upto(regions, Len(regions) - 1)

\* fn get_region_map
get_region_map(regions) == region_map_upto(regions, Len(regions))

\* paths_to, the loop `for f in states { for m in f.all_moves() { v.push(f.into_move(m)) } }`
RECURSIVE push_moves(_, _, _, _)
push_moves(v, f, moves, k) ==
    IF k > Len(moves) THEN v
    ELSE push_moves(Append(v, into_move(f, moves[k]).new), f, moves, k + 1)

\* the inner loop started at the second move of f.all_moves()
children_skip_first(f) == push_moves(<<>>, f, all_moves(f), 2)

\* paths_to, `for m in f.all_moves() { v.push(f.into_move(m.clone())) }`
children(f) == push_moves(<<>>, f, all_moves(f), 1)

RECURSIVE expand_range(_, _, _)
expand_range(states, lo, hi) ==
    IF lo > hi THEN <<>>
    ELSE IF lo = hi THEN children(states[lo])
    ELSE LET mid == (lo + hi) \div 2
         IN  expand_range(states, lo, mid) \o expand_range(states, mid + 1, hi)

\* the expansion loop with a child dropped when the vector v already holds a
\* state with the same board and head
expand_dedup(states) ==
    LET v == expand_range(states, 1, Len(states))
        kept == SelectSeq([i \in 1 .. Len(v) |-> i],
                          LAMBDA i : ~\E j \in 1 .. (i - 1) :
                                        /\ v[j].current_position = v[i].current_position
                                        /\ v[j].board = v[i].board)
    IN  [k \in 1 .. Len(kept) |-> v[kept[k]]]

\* the expansion loop with the input states left in the vector v
expand_keeping_parents(states) == states \o expand_range(states, 1, Len(states))

\* paths_to, the loop `for f in states { ... }`: the vector v it builds
expand(states) == expand_range(states, 1, Len(states))

\* paths_to with the base case `moves_left <= 1`
RECURSIVE paths_to_early(_, _, _)
paths_to_early(states, destination, moves_left) ==
    IF moves_left <= 1
    THEN SelectSeq(states, LAMBDA p : p.current_position = destination)
    ELSE paths_to_early(expand(states), destination, moves_left - 1)

\* paths_to without the retain
RECURSIVE paths_to_unfiltered(_, _, _)
paths_to_unfiltered(states, destination, moves_left) ==
    IF moves_left = 0
    THEN states
    ELSE paths_to_unfiltered(expand(states), destination, moves_left - 1)

\* fn paths_to
RECURSIVE paths_to(_, _, _)
paths_to(states, destination, moves_left) ==
    IF moves_left = 0
    THEN SelectSeq(states, LAMBDA p : p.current_position = destination)
    ELSE paths_to(expand(states), destination, moves_left - 1)

\* fn init_waypoints
init_waypoints == <<
    <<1,  pos(0, 0)>>, <<4,  pos(1, 2)>>, <<7,  pos(5, 3)>>, <<10, pos(9, 4)>>,
    <<13, pos(9, 1)>>, <<16, pos(5, 4)>>, <<19, pos(3, 7)>>, <<22, pos(2, 9)>>,
    <<25, pos(2, 8)>>, <<28, pos(4, 5)>>, <<31, pos(9, 5)>>, <<34, pos(8, 5)>>,
    <<37, pos(8, 8)>>, <<40, pos(9, 2)>>, <<43, pos(6, 0)>>, <<46, pos(2, 3)>>,
    <<49, pos(0, 6)>> >>

\* bound on the unguided round counter `add`
MaxAdd == 13

\* main, `for p in ps { if p.check() { ...; return } }`: index of the state
\* reported, 0 when the loop ends without a report
RECURSIVE first_check_range(_, _, _)
first_check_range(list, lo, hi) ==
    IF lo > hi THEN 0
    ELSE IF lo = hi THEN (IF check(list[lo]) THEN lo ELSE 0)
    ELSE LET mid == (lo + hi) \div 2
             left == first_check_range(list, lo, mid)
         IN  IF left # 0 THEN left ELSE first_check_range(list, mid + 1, hi)

\* the report loop without the test `if p.check()`
first_check_untested(list) == IF Len(list) > 0 THEN 1 ELSE 0

first_check(list) == first_check_range(list, 1, Len(list))

(***************************************************************************)
(* The driver.  The waypoint table is input data of the search; besides    *)
(* the table of init_waypoints the driver is run on tables that differ     *)
(* from it in the cell of one waypoint, on which the frontier runs empty   *)
(* in the waypoint phase or in the unguided phase.                         *)
(***************************************************************************)
WaypointVariants ==
    { <<2, pos(9, 9)>>, <<6, pos(9, 0)>>, <<9, pos(7, 5)>>, <<9, pos(4, 8)>> }

WaypointTables ==
    {init_waypoints} \cup
    { [init_waypoints EXCEPT ![v[1]] = <<init_waypoints[v[1]][1], v[2]>>] :
        v \in WaypointVariants }

\* main, lines 301-307
Init ==
    /\ region_list = init_regions
    /\ ref_regions = get_region_map(init_regions)
    /\ waypoints \in WaypointTables
    /\ flows = <<new_GameState>>
    /\ ps = <<>>
    /\ wi = 1
    /\ add = 1
    /\ pc = "waypoints"
    /\ reported = <<>>
    /\ in_destination = pos(0, 0)
    /\ in_moves_left = 0
    /\ rec_moves_left = 0
    /\ in_self = pos(0, 0)
    /\ index = 0

\* main, one iteration of the waypoint loop (lines 309-320)
WaypointStep ==
    /\ pc = "waypoints"
    /\ wi < Len(waypoints)
    /\ LET waypoint == waypoints[wi + 1][2]
           result == paths_to(flows, waypoint, 3)
           hit == first_check(result)
       IN  IF hit # 0
           THEN /\ reported' = <<result[hit]>>
                /\ pc' = "done"
                /\ ps' = result
                /\ flows' = <<>>
           ELSE /\ flows' = result
                /\ ps' = <<>>
                /\ pc' = IF wi + 1 = Len(waypoints) THEN "unguided" ELSE "waypoints"
                /\ UNCHANGED reported
    /\ wi' = wi + 1
    /\ UNCHANGED <<region_list, ref_regions, waypoints, add, in_destination, in_moves_left,
                   rec_moves_left, in_self, index>>

\* main, one iteration of the unguided loop (lines 325-344)
UnguidedRound ==
    /\ pc = "unguided"
    /\ add < MaxAdd
    /\ add' = add + 1
    /\ LET vec == expand(flows)
           hit == first_check(vec)
       IN  IF hit # 0
           THEN /\ reported' = <<vec[hit]>>
                /\ pc' = "done"
                /\ ps' = vec
                /\ flows' = <<>>
           ELSE /\ flows' = vec
                /\ ps' = <<>>
                /\ UNCHANGED <<pc, reported>>
    /\ UNCHANGED <<region_list, ref_regions, waypoints, wi, in_destination, in_moves_left,
                   rec_moves_left, in_self, index>>

Next == WaypointStep \/ UnguidedRound

Spec == Init /\ [][Next]_vars

\* main is a sequential program that runs on while it has a step to take:
\* an iteration of one of its loops that can start is eventually completed.
\* Every step of Next is an iteration, and an iteration is enabled exactly
\* when Next is.
Iteration ==
    \/ pc = "waypoints" /\ wi < Len(waypoints) /\ wi' = wi + 1 /\ add' = add
    \/ pc = "unguided" /\ add < MaxAdd /\ add' = add + 1 /\ wi' = wi

FairSpec == Spec /\ WF_<<wi, add>>(Iteration)

(***************************************************************************)
(* Vocabulary of the properties: the board, the regions and the moves      *)
(* stated on sets, independently of the loops and of the reverse lookup.   *)
(***************************************************************************)
KnightOffsets ==
    { <<1, 2>>, <<1, -2>>, <<-1, 2>>, <<-1, -2>>,
      <<2, 1>>, <<2, -1>>, <<-2, 1>>, <<-2, -1>> }

InGrid(c) == c.x \in 0 .. 9 /\ c.y \in 0 .. 9

CellsOf(region) == { region[j] : j \in 1 .. Len(region) }

\* the 0-based index of the region that contains cell c
RegionOf(c) == (CHOOSE k \in 1 .. Len(region_list) : c \in CellsOf(region_list[k])) - 1

MarkedIn(s, cells) == Cardinality({ c \in cells : s.board[c.y * 10 + c.x] })

LegalCells(s) ==
    { c \in { pos(s.current_position.x + o[1], s.current_position.y + o[2]) :
                o \in KnightOffsets } :
        /\ InGrid(c)
        /\ ~s.board[c.y * 10 + c.x]
        /\ RegionOf(c) # s.current_region
        /\ MarkedIn(s, CellsOf(region_list[RegionOf(c) + 1])) < 5 }

Range(seq) == { seq[k] : k \in 1 .. Len(seq) }

\* P holds of every path state the driver holds
AllStates(P(_)) ==
    /\ \A k \in 1 .. Len(flows) : P(flows[k])
    /\ \A k \in 1 .. Len(ps) : P(ps[k])

SomeState(P(_)) ==
    \/ \E k \in 1 .. Len(flows) : P(flows[k])
    \/ \E k \in 1 .. Len(ps) : P(ps[k])

\* C1: in every path state of the driver's frontiers, all_moves returns
\* exactly the cells that are a knight offset away from the head, inside the
\* grid, unmarked, in a region other than the current one and in a region
\* with fewer than 5 marks.
C1_MovesAreLegal(s) == Range(all_moves(s)) = LegalCells(s)
C1_AllMovesExact == AllStates(C1_MovesAreLegal)

\* a state in which each rule of legality removes some knight offset: one is
\* off the grid, one is marked, one is in the current region, and one is
\* in-grid, unmarked, in another region, and in a region holding 5 marks
C1_CapBinds(s) ==
    /\ all_moves(s) # <<>>
    /\ \E o \in KnightOffsets :
          ~InGrid(pos(s.current_position.x + o[1], s.current_position.y + o[2]))
    /\ \E o \in KnightOffsets :
          LET c == pos(s.current_position.x + o[1], s.current_position.y + o[2])
          IN  InGrid(c) /\ s.board[c.y * 10 + c.x]
    /\ \E o \in KnightOffsets :
          LET c == pos(s.current_position.x + o[1], s.current_position.y + o[2])
          IN  InGrid(c) /\ ~s.board[c.y * 10 + c.x] /\ RegionOf(c) = s.current_region
    /\ \E o \in KnightOffsets :
          LET c == pos(s.current_position.x + o[1], s.current_position.y + o[2])
          IN  /\ InGrid(c)
              /\ ~s.board[c.y * 10 + c.x]
              /\ RegionOf(c) # s.current_region
              /\ MarkedIn(s, CellsOf(region_list[RegionOf(c) + 1])) >= 5
C1_Witness == SomeState(C1_CapBinds)

RowCells(y) == { pos(x, y) : x \in 0 .. 9 }
ColCells(x) == { pos(x, y) : y \in 0 .. 9 }

RowsBalanced(s) == \A y1, y2 \in 0 .. 9 : MarkedIn(s, RowCells(y1)) = MarkedIn(s, RowCells(y2))
ColsBalanced(s) == \A x1, x2 \in 0 .. 9 : MarkedIn(s, ColCells(x1)) = MarkedIn(s, ColCells(x2))
RegionsBalanced(s) ==
    \A k1, k2 \in 1 .. Len(region_list) :
        MarkedIn(s, CellsOf(region_list[k1])) = MarkedIn(s, CellsOf(region_list[k2]))

\* C2: check returns true exactly when the 10 row counts are equal to each
\* other, the 10 column counts are equal to each other and the 12 region
\* counts are equal to each other (the three common values may differ).
C2_CheckMeansBalanced(s) == check(s) <=> (RowsBalanced(s) /\ ColsBalanced(s) /\ RegionsBalanced(s))
C2_CheckIffBalanced == AllStates(C2_CheckMeansBalanced)

\* in one frontier: a state that check accepts with a row count (6) other
\* than its region count (5), a state with balanced rows and regions but
\* unbalanced columns, and a state with balanced regions only
C2_Accepted(s) ==
    /\ check(s)
    /\ MarkedIn(s, RowCells(0)) # MarkedIn(s, CellsOf(region_list[1]))
C2_ColsOnlyBroken(s) == RowsBalanced(s) /\ RegionsBalanced(s) /\ ~ColsBalanced(s) /\ ~check(s)
C2_RegionsOnly(s) == RegionsBalanced(s) /\ ~RowsBalanced(s) /\ ~ColsBalanced(s) /\ ~check(s)
C2_Witness ==
    /\ SomeState(C2_Accepted)
    /\ SomeState(C2_ColsOnlyBroken)
    /\ SomeState(C2_RegionsOnly)

\* C4: once the driver has processed the waypoint (n, c), every state of the
\* frontier has history length n and head c, and every state derived later,
\* the reported one included, keeps c as the n-th cell of its history, for
\* every waypoint processed so far.
C4_KeepsProcessed(s) ==
    \A j \in 1 .. wi :
        /\ Len(s.history) >= waypoints[j][1]
        /\ s.history[waypoints[j][1]] = waypoints[j][2]
C4_JustProcessed(s) ==
    (add = 1 /\ pc # "done") =>
        /\ Len(s.history) = waypoints[wi][1]
        /\ s.current_position = waypoints[wi][2]
C4_WaypointsHit ==
    /\ AllStates(C4_JustProcessed)
    /\ AllStates(C4_KeepsProcessed)
    /\ reported # <<>> => C4_KeepsProcessed(reported[1])

\* a solution reported in the unguided phase, after all the waypoints
C4_Witness ==
    /\ pc = "done"
    /\ reported # <<>>
    /\ wi = Len(waypoints)
    /\ Len(reported[1].history) > waypoints[wi][1]

\* C5: a state is reported only if check holds for it; it is the first state
\* of the produced frontier, in frontier order, for which check holds; and
\* after the report the driver takes no further step.
C5_ReportedState ==
    IF pc = "done"
    THEN /\ reported # <<>>
         /\ check(reported[1])
         /\ \E k \in 1 .. Len(ps) :
               /\ ps[k] = reported[1]
               /\ \A j \in 1 .. (k - 1) : ~check(ps[j])
    ELSE reported = <<>>
C5_FirstBalancedReported == []C5_ReportedState /\ [][pc # "done"]_vars

\* a report of a state that is not at the head of its frontier
C5_Witness ==
    /\ pc = "done"
    /\ reported # <<>>
    /\ Len(ps) > 1
    /\ ps[1] # reported[1]

\* C6: on the tables of the source (init_regions, init_waypoints) the driver,
\* after the waypoint phases and the unguided rounds, eventually reports a
\* state for which check holds.
C6_Solved ==
    /\ pc = "done"
    /\ reported # <<>>
    /\ check(reported[1])
    /\ wi = Len(waypoints)
    /\ add > 1
C6_EventuallySolved ==
    (region_list = init_regions /\ waypoints = init_waypoints) ~> C6_Solved

C6_Witness == region_list = init_regions /\ waypoints = init_waypoints /\ C6_Solved

MaxHist == 7

InitPath ==
    /\ region_list = init_regions
    /\ ref_regions = get_region_map(init_regions)
    /\ waypoints = init_waypoints
    /\ flows = <<new_GameState>>
    /\ ps = <<>>
    /\ wi = 1
    /\ add = 1
    /\ pc = "derive"
    /\ reported = <<>>
    /\ in_destination = pos(0, 0)
    /\ in_moves_left = 0
    /\ rec_moves_left = 0
    /\ in_self = pos(0, 0)
    /\ index = 0

\* f.into_move(m) for the next m of f.all_moves(), as in the loops of
\* paths_to and main
Derive ==
    /\ pc = "derive"
    /\ Len(ps) < Len(all_moves(flows[1]))
    /\ LET m == all_moves(flows[1])[Len(ps) + 1]
           r == into_move(flows[1], m)
       IN  /\ flows' = <<r.self>>
           /\ ps' = Append(ps, r.new)
    /\ UNCHANGED <<region_list, ref_regions, waypoints, wi, add, pc, reported,
                   in_destination, in_moves_left,
                   rec_moves_left, in_self, index>>

\* one of the children becomes the state that is expanded next
Descend ==
    /\ pc = "derive"
    /\ Len(flows[1].history) < MaxHist
    /\ \E k \in 1 .. Len(ps) :
          /\ flows' = <<ps[k]>>
          /\ ps' = <<>>
    /\ UNCHANGED <<region_list, ref_regions, waypoints, wi, add, pc, reported,
                   in_destination, in_moves_left,
                   rec_moves_left, in_self, index>>

NextPath == Derive \/ Descend

SpecPath == InitPath /\ [][NextPath]_vars

\* C9: into_move(s, c) leaves s unchanged and returns a child whose board
\* differs from the board of s only at the index of c (now true), whose
\* history is the history of s with c appended and whose head is c; the
\* children derived earlier from s are not changed by a later derivation.
C9_ChildOf(parent, child) ==
    LET c == child.current_position
    IN  /\ child.history = Append(parent.history, c)
        /\ child.board[c.y * 10 + c.x]
        /\ \A i \in 0 .. 99 : i # c.y * 10 + c.x => child.board[i] = parent.board[i]
        /\ DOMAIN child.board = DOMAIN parent.board
C9_Children ==
    pc = "derive" =>
        /\ \A k \in 1 .. Len(ps) : C9_ChildOf(flows[1], ps[k])
        /\ \A j, k \in 1 .. Len(ps) : j # k => ps[j] # ps[k]
C9_ParentKept ==
    Len(ps') > Len(ps) =>
        /\ flows' = flows
        /\ \A k \in 1 .. Len(ps) : ps'[k] = ps[k]
C9_DerivationIsPure == []C9_Children /\ [][C9_ParentKept]_vars

\* a parent beyond the initial state with several children
C9_Witness ==
    /\ pc = "derive"
    /\ Len(ps) >= 3
    /\ Len(flows[1].history) >= 3

\* C10: the initial state has exactly the origin marked and history
\* [(0,0)]; in every state derived from it by legal moves a cell is marked
\* iff it occurs in the history, the head is the last cell of the history
\* and current_region is the region the reverse lookup gives for the head.
C10_Consistent(s) ==
    /\ s.history # <<>>
    /\ \A x, y \in 0 .. 9 : s.board[y * 10 + x] <=> pos(x, y) \in Range(s.history)
    /\ s.current_position = s.history[Len(s.history)]
    /\ s.current_region = ref_regions[s.current_position.y * 10 + s.current_position.x]
    /\ s.history[1] = pos(0, 0)
    /\ Len(s.history) = 1 => { i \in 0 .. 99 : s.board[i] } = {0}
C10_PathStateInvariant == pc = "derive" => AllStates(C10_Consistent)

\* a derived state whose head lies in another region than the origin
C10_Witness ==
    /\ pc = "derive"
    /\ Len(flows[1].history) >= 4
    /\ flows[1].current_region # 0
    /\ ps # <<>>

(***************************************************************************)
(* paths_to on its own: called with a frontier of states of one history    *)
(* length, any cell of the grid and a number of moves.  flows holds the    *)
(* argument states, ps the returned vector.                                *)
(***************************************************************************)
\* bound on the argument moves_left
MaxMovesLeft == 3

\* bound on the history length of the states of an argument frontier
MaxInputHist == 2

InitPathsTo ==
    /\ region_list = init_regions
    /\ ref_regions = get_region_map(init_regions)
    /\ waypoints = init_waypoints
    /\ flows = <<new_GameState>>
    /\ ps = <<>>
    /\ wi = 1
    /\ add = 1
    /\ pc = "input"
    /\ reported = <<>>
    /\ in_destination = pos(0, 0)
    /\ in_moves_left = 0
    /\ rec_moves_left = 0
    /\ in_self = pos(0, 0)
    /\ index = 0

\* the argument frontier grows by one legal move of every state
GrowInput ==
    /\ pc = "input"
    /\ flows # <<>>
    /\ Len(flows[1].history) < MaxInputHist
    /\ flows' = expand(flows)
    /\ UNCHANGED <<region_list, ref_regions, waypoints, ps, wi, add, pc, reported,
                   in_destination, in_moves_left,
                   rec_moves_left, in_self, index>>

\* the argument frontier is cut down to the states with one head, as by the
\* retain of an earlier call; the origin is the head of no derived state
NarrowInput ==
    /\ pc = "input"
    /\ \E c \in { flows[k].current_position : k \in 1 .. Len(flows) } \cup { pos(0, 0) } :
          flows' = SelectSeq(flows, LAMBDA p : p.current_position = c)
    /\ flows' # flows
    /\ UNCHANGED <<region_list, ref_regions, waypoints, ps, wi, add, pc, reported,
                   in_destination, in_moves_left,
                   rec_moves_left, in_self, index>>

CallPathsTo ==
    /\ pc = "input"
    /\ \E d \in { pos(x, y) : x, y \in 0 .. 9 }, n \in 0 .. MaxMovesLeft :
          /\ in_destination' = d
          /\ in_moves_left' = n
          /\ ps' = paths_to(flows, d, n)
    /\ pc' = "returned"
    /\ UNCHANGED <<region_list, ref_regions, waypoints, flows, wi, add, reported,
                   rec_moves_left, in_self, index>>

NextPathsTo == GrowInput \/ NarrowInput \/ CallPathsTo

SpecPathsTo == InitPathsTo /\ [][NextPathsTo]_vars

\* the state derived from s by marking c
Derived(s, c) ==
    [board            |-> [i \in 0 .. 99 |-> s.board[i] \/ i = c.y * 10 + c.x],
     history          |-> s.history \o <<c>>,
     current_position |-> c,
     current_region   |-> RegionOf(c)]

\* some sequence of exactly n legal moves leads from s to target
RECURSIVE Reaches(_, _, _)
Reaches(s, target, n) ==
    IF n = 0 THEN s.current_position = target
    ELSE \E c \in LegalCells(s) : Reaches(Derived(s, c), target, n - 1)

\* C3: for a frontier whose states all have history length L, paths_to
\* (frontier, target, n) returns only states of history length L + n whose
\* head is target, and returns the empty vector when no state of the
\* frontier reaches target in exactly n legal moves.
C3_PathsToExact ==
    pc = "returned" =>
        /\ \A k \in 1 .. Len(ps) :
              /\ \A j \in 1 .. Len(flows) :
                    Len(ps[k].history) = Len(flows[j].history) + in_moves_left
              /\ ps[k].current_position = in_destination
        /\ (\A k \in 1 .. Len(flows) : ~Reaches(flows[k], in_destination, in_moves_left))
              => ps = <<>>

\* a call with several states and three moves that returns several states
C3_Witness ==
    /\ pc = "returned"
    /\ Len(flows) > 1
    /\ in_moves_left = 3
    /\ Len(ps) > 1

\* a call that returns nothing although its frontier is not empty
C3_WitnessEmpty ==
    /\ pc = "returned"
    /\ Len(flows) > 1
    /\ in_moves_left > 0
    /\ ps = <<>>
(***************************************************************************)
(* Further properties of the driver's frontiers.                           *)
(***************************************************************************)
\* C11: every path state of the driver's frontiers has at most 5 marked
\* cells in each region, and none of its legal moves enters a region that
\* already holds 5 marks.
C11_Capped(s) ==
    /\ \A k \in 1 .. Len(region_list) : MarkedIn(s, CellsOf(region_list[k])) <= 5
    /\ \A j \in 1 .. Len(all_moves(s)) :
          MarkedIn(s, CellsOf(region_list[RegionOf(all_moves(s)[j]) + 1])) < 5
C11_RegionCap == AllStates(C11_Capped) /\ (reported # <<>> => C11_Capped(reported[1]))

\* a state with a region of exactly 5 marks next to the head: a cell of that
\* region is a knight offset away, unmarked, outside the current region, and
\* is not among the moves
C11_FullRegionAhead(s) ==
    \E o \in KnightOffsets :
        LET c == pos(s.current_position.x + o[1], s.current_position.y + o[2])
        IN  /\ InGrid(c)
            /\ ~s.board[c.y * 10 + c.x]
            /\ RegionOf(c) # s.current_region
            /\ MarkedIn(s, CellsOf(region_list[RegionOf(c) + 1])) = 5
            /\ c \notin Range(all_moves(s))
C11_Witness == SomeState(C11_FullRegionAhead)
\* the region table with regions 1 and k exchanged, reversed, and rotated
SwapFirst(t, k) == [t EXCEPT ![1] = t[k], ![k] = t[1]]
Reversed(t) == [k \in 1 .. Len(t) |-> t[Len(t) + 1 - k]]
Rotated(t) == Tail(t) \o <<t[1]>>
Relabelings ==
    { SwapFirst(region_list, k) : k \in 2 .. Len(region_list) }
        \cup { Reversed(region_list), Rotated(region_list), Rotated(Reversed(region_list)) }

\* C13: for every path state of the driver's frontiers, check gives the
\* same result on a region table that lists the same regions in another
\* order, and so does its comparison of the region counts.
C13_CheckIgnoresRegionOrder ==
    LET tables == Relabelings
    IN  AllStates(LAMBDA s :
            LET accepted == check(s)
                regions_equal == cl_regions_equal(s)
            IN  \A t \in tables :
                    /\ check_in(t, s) = accepted
                    /\ cl_regions_equal_in(t, s) = regions_equal)

\* one frontier holds a state that check accepts under every order of the
\* regions, and a state with equal region counts that check rejects under
\* every order
C13_Witness ==
    /\ \A t \in Relabelings : t # region_list
    /\ SomeState(LAMBDA s : check(s) /\ \A t \in Relabelings : check_in(t, s))
    /\ SomeState(LAMBDA s : /\ ~check(s)
                            /\ \A t \in Relabelings :
                                  ~check_in(t, s) /\ cl_regions_equal_in(t, s))

\* C14: after every waypoint expansion and after every unguided round, all
\* the states of the frontier have the same history length: it is 3 moves
\* per waypoint expansion and 1 move per unguided round beyond the initial
\* state.
C14_SameLength(frontier) ==
    \A k \in 1 .. Len(frontier) :
        /\ Len(frontier[k].history) = Len(frontier[1].history)
        /\ Len(frontier[k].history) = 3 * (wi - 1) + add
C14_LockStep == C14_SameLength(flows) /\ C14_SameLength(ps)

\* a frontier of several states produced by an unguided round
C14_Witness ==
    /\ pc = "unguided"
    /\ add > 1
    /\ Len(flows) > 1
    /\ Len(flows[Len(flows)].history) > waypoints[Len(waypoints)][1]

\* C19: in the driver's frontiers check holds only for states with exactly
\* 60 marked cells, 6 in every row, 6 in every column and 5 in every
\* region; no check of the waypoint phase succeeds and a solution is
\* reported only in unguided round 11 (the round that leaves add = 12);
\* a state with 60 marked cells has no legal move.
C19_Marks(s) == Cardinality({ i \in 0 .. 99 : s.board[i] })
C19_FullWhenAccepted(s) ==
    check(s) =>
        /\ C19_Marks(s) = 60
        /\ Len(s.history) = 60
        /\ \A y \in 0 .. 9 : MarkedIn(s, RowCells(y)) = 6
        /\ \A x \in 0 .. 9 : MarkedIn(s, ColCells(x)) = 6
        /\ \A k \in 1 .. Len(region_list) : MarkedIn(s, CellsOf(region_list[k])) = 5
C19_StuckWhenFull(s) ==
    C19_Marks(s) = 60 => (all_moves(s) = <<>> /\ LegalCells(s) = {})
C19_OnlyFullBoardsBalance ==
    /\ AllStates(C19_FullWhenAccepted)
    /\ AllStates(C19_StuckWhenFull)
    /\ reported # <<>> => C19_FullWhenAccepted(reported[1])
    /\ (pc = "done" \/ reported # <<>>) => (wi = Len(waypoints) /\ add = 12)

\* the report of unguided round 11: 60 marked cells and no move left, in a
\* frontier that also holds states check rejects
C19_Witness ==
    /\ pc = "done"
    /\ add = 12
    /\ reported # <<>>
    /\ C19_Marks(reported[1]) = 60
    /\ all_moves(reported[1]) = <<>>
    /\ \E k \in 1 .. Len(ps) : ~check(ps[k]) /\ C19_Marks(ps[k]) = 60

\* C20: in every state of every frontier of the driver the history is a
\* knight path: no cell occurs twice, every two consecutive cells differ by
\* a knight offset and lie in different regions; and no move that
\* all_moves gives for the state, the argument of the next into_move, is a
\* marked cell.
C20_KnightPath(s) ==
    LET h == s.history
    IN  /\ Cardinality(Range(h)) = Len(h)
        /\ \A i \in 1 .. Len(h) : InGrid(h[i])
        /\ \A i \in 1 .. (Len(h) - 1) :
              /\ <<h[i + 1].x - h[i].x, h[i + 1].y - h[i].y>> \in KnightOffsets
              /\ RegionOf(h[i + 1]) # RegionOf(h[i])
C20_MovesUnmarked(s) ==
    \A j \in 1 .. Len(all_moves(s)) :
        /\ ~s.board[raw_index(all_moves(s)[j])]
        /\ all_moves(s)[j] \notin Range(s.history)
C20_ValidKnightPaths ==
    /\ AllStates(C20_KnightPath)
    /\ AllStates(C20_MovesUnmarked)
    /\ reported # <<>> => C20_KnightPath(reported[1])

\* a state with a marked cell a knight offset away from the head, in another
\* region than the head's and in a region below the cap, and with a move left
C20_MarkedCellAhead(s) ==
    /\ all_moves(s) # <<>>
    /\ Len(s.history) > 3
    /\ \E o \in KnightOffsets :
          LET c == pos(s.current_position.x + o[1], s.current_position.y + o[2])
          IN  /\ InGrid(c)
              /\ s.board[c.y * 10 + c.x]
              /\ c # s.history[Len(s.history) - 1]
              /\ RegionOf(c) # s.current_region
              /\ MarkedIn(s, CellsOf(region_list[RegionOf(c) + 1])) < 5
C20_Witness == SomeState(C20_MarkedCellAhead)

(***************************************************************************)
(* The driver from the start of main, on tables other than the ones of     *)
(* the source as well: the region table and the waypoint table are the     *)
(* values returned by init_regions and init_waypoints, and main builds the *)
(* reverse lookup and the initial state from them before it searches.      *)
(***************************************************************************)
\* init_regions without the cell (4, 8): that cell is in no region
regions_missing_cell ==
    [init_regions EXCEPT ![12] = SelectSeq(init_regions[12], LAMBDA c : c # pos(4, 8))]

\* init_regions with the cell (1, 1) in regions 0 and 2
regions_shared_cell ==
    [init_regions EXCEPT ![1] = Append(init_regions[1], pos(1, 1))]

\* init_waypoints with the cell of waypoint 10 outside the grid
waypoints_outside_grid ==
    [init_waypoints EXCEPT ![4] = <<10, pos(10, 4)>>]

\* init_waypoints with the move numbers of waypoints 7 and 10 exchanged
waypoints_not_increasing ==
    [init_waypoints EXCEPT ![3] = <<10, pos(5, 3)>>, ![4] = <<7, pos(9, 4)>>]

\* the tables main is started on: <<region table, waypoint table>>
LoadInputs ==
    { <<init_regions, init_waypoints>>,
      <<regions_missing_cell, init_waypoints>>,
      <<regions_shared_cell, init_waypoints>>,
      <<init_regions, waypoints_outside_grid>>,
      <<init_regions, waypoints_not_increasing>> }

\* main before its first statement
InitLoad ==
    /\ \E input \in LoadInputs :
          /\ region_list = input[1]
          /\ waypoints = input[2]
    /\ ref_regions = [i \in 0 .. (BOARD_WIDTH * BOARD_HEIGHT - 1) |-> 0]
    /\ flows = <<>>
    /\ ps = <<>>
    /\ wi = 1
    /\ add = 1
    /\ pc = "load"
    /\ reported = <<>>
    /\ in_destination = pos(0, 0)
    /\ in_moves_left = 0
    /\ rec_moves_left = 0
    /\ in_self = pos(0, 0)
    /\ index = 0

\* main, `let region_map = Rc::new(get_region_map(&regions))`
LoadRegions ==
    /\ pc = "load"
    /\ ref_regions' = get_region_map(region_list)
    /\ pc' = "new"
    /\ UNCHANGED <<region_list, waypoints, flows, ps, wi, add, reported,
                   in_destination, in_moves_left,
                   rec_moves_left, in_self, index>>

\* main, `let mut flows = vec![GameState::new(region_map, region_list)]`
NewGame ==
    /\ pc = "new"
    /\ flows' = <<new_GameState>>
    /\ pc' = "waypoints"
    /\ UNCHANGED <<region_list, ref_regions, waypoints, ps, wi, add, reported,
                   in_destination, in_moves_left,
                   rec_moves_left, in_self, index>>

NextLoad == LoadRegions \/ NewGame \/ WaypointStep \/ UnguidedRound

SpecLoad == InitLoad /\ [][NextLoad]_vars

\* every cell of the grid is in exactly one region, exactly once
PartitionsGrid(regions) ==
    /\ \A k \in 1 .. Len(regions) : \A j \in 1 .. Len(regions[k]) : InGrid(regions[k][j])
    /\ \A x, y \in 0 .. 9 :
          Cardinality({ kj \in { <<k, j>> : k \in 1 .. Len(regions), j \in 1 .. 15 } :
                          /\ kj[2] <= Len(regions[kj[1]])
                          /\ regions[kj[1]][kj[2]] = pos(x, y) }) = 1

\* every waypoint cell is in the grid and the move numbers strictly increase
WaypointsValid(w) ==
    /\ \A j \in 1 .. Len(w) : InGrid(w[j][2])
    /\ \A j \in 1 .. (Len(w) - 1) : w[j][1] < w[j + 1][1]

ValidInput == PartitionsGrid(region_list) /\ WaypointsValid(waypoints)

C15_Call ==
    /\ pc = "returned"
    /\ region_list = init_regions
    /\ flows = <<new_GameState>>
    /\ in_destination = pos(1, 2)
    /\ in_moves_left = 3
C15_SecondWaypoint ==
    C15_Call =>
        /\ ps # <<>>
        /\ \A k \in 1 .. Len(ps) :
              /\ Len(ps[k].history) = 4
              /\ ps[k].current_position = pos(1, 2)
              /\ ps[k].history[4] = pos(1, 2)

\* the call has returned: the path (0,0), (2,1), (3,3), (1,2)
C15_Witness ==
    /\ C15_Call
    /\ \E k \in 1 .. Len(ps) : ps[k].history = <<pos(0, 0), pos(2, 1), pos(3, 3), pos(1, 2)>>
\* C16: the region table of init_regions has 12 regions and every cell of
\* the grid is in exactly one of them; the reverse lookup of get_region_map
\* gives for every cell the index of the region that holds it, and of no
\* other; no step of the driver changes the table or the lookup.
C16_Agrees ==
    \A x, y \in 0 .. 9 :
        LET id == ref_regions[raw_index(pos(x, y))]
        IN  /\ id \in 0 .. (Len(region_list) - 1)
            /\ \A k \in 1 .. Len(region_list) :
                  pos(x, y) \in CellsOf(region_list[k]) <=> k = id + 1
C16_Tables ==
    /\ region_list = init_regions
    /\ Len(region_list) = 12
    /\ PartitionsGrid(region_list)
    /\ DOMAIN ref_regions = 0 .. 99
    /\ ref_regions = get_region_map(region_list)
    /\ C16_Agrees
C16_RegionsPartitionGrid ==
    []C16_Tables /\ [][region_list' = region_list /\ ref_regions' = ref_regions]_vars

\* the search has run: a reported solution, with the tables as loaded
C16_Witness ==
    /\ pc = "done"
    /\ reported # <<>>
    /\ C16_Agrees
    /\ \E k \in 1 .. Len(region_list) : ref_regions[raw_index(region_list[k][1])] = 11
(***************************************************************************)
(* raw_index on its own: called on any position with coordinates up to     *)
(* MaxCoord, the positions of the grid and positions beside it.            *)
(***************************************************************************)
\* bound on the coordinates of the receiver
MaxCoord == 10

InitIndex ==
    /\ region_list = init_regions
    /\ ref_regions = get_region_map(init_regions)
    /\ waypoints = init_waypoints
    /\ flows = <<>>
    /\ ps = <<>>
    /\ wi = 1
    /\ add = 1
    /\ pc = "call"
    /\ reported = <<>>
    /\ in_destination = pos(0, 0)
    /\ in_moves_left = 0
    /\ rec_moves_left = 0
    /\ in_self \in { pos(x, y) : x, y \in 0 .. MaxCoord }
    /\ index = 0

\* Position::raw_index
CallRawIndex ==
    /\ pc = "call"
    /\ index' = raw_index(in_self)
    /\ pc' = "returned"
    /\ UNCHANGED <<region_list, ref_regions, waypoints, flows, ps, wi, add, reported,
                   in_destination, in_moves_left, rec_moves_left, in_self>>

NextIndex == CallRawIndex

SpecIndex == InitIndex /\ [][NextIndex]_vars

\* C17: for a position of the grid (0 <= x < 10, 0 <= y < 10), raw_index
\* returns an index in 0 .. 99 that no other position of the grid is given,
\* and (index mod 10, index div 10) is the position.
C17_IndexRoundTrip ==
    (pc = "returned" /\ InGrid(in_self)) =>
        /\ index \in 0 .. 99
        /\ index % 10 = in_self.x
        /\ index \div 10 = in_self.y
        /\ \A x, y \in 0 .. 9 : raw_index(pos(x, y)) = index => pos(x, y) = in_self

\* raw_index has returned for a position of the grid with both coordinates
\* positive and different
C17_Witness ==
    /\ pc = "returned"
    /\ InGrid(in_self)
    /\ in_self.x = 9
    /\ in_self.y = 3
    /\ index = 39
(***************************************************************************)
(* paths_to call by call: the recursion of paths_to on an argument         *)
(* frontier, one activation per step.  flows holds the argument states of  *)
(* the outermost call, ps the vector `states` of the activation in         *)
(* progress and then the returned vector.  destination is passed down      *)
(* unread until the base case, where it is drawn.                          *)
(***************************************************************************)
\* bound on the history length of the states of the deepest activation
MaxPathLen == 7

\* the outermost call paths_to(flows, _, n)
EnterPathsTo ==
    /\ pc = "input"
    /\ \E n \in 0 .. (MaxPathLen - (IF flows = <<>> THEN MaxPathLen - 1
                                     ELSE Len(flows[1].history))) :
          /\ in_moves_left' = n
          /\ rec_moves_left' = n
    /\ ps' = flows
    /\ pc' = "running"
    /\ UNCHANGED <<region_list, ref_regions, waypoints, flows, wi, add, reported,
                   in_destination, in_self, index>>

\* paths_to, the else branch: `paths_to(v, destination, moves_left - 1)`
Recurse ==
    /\ pc = "running"
    /\ rec_moves_left # 0
    /\ ps' = expand(ps)
    /\ rec_moves_left' = rec_moves_left - 1
    /\ UNCHANGED <<region_list, ref_regions, waypoints, flows, wi, add, pc, reported,
                   in_destination, in_moves_left, in_self, index>>

\* paths_to, the base case: `states.retain(...)`, and the return of every
\* activation
Retain ==
    /\ pc = "running"
    /\ rec_moves_left = 0
    /\ \E d \in { pos(x, y) : x, y \in 0 .. 9 } :
          /\ in_destination' = d
          /\ ps' = SelectSeq(ps, LAMBDA p : p.current_position = d)
    /\ pc' = "returned"
    /\ UNCHANGED <<region_list, ref_regions, waypoints, flows, wi, add, reported,
                   in_moves_left, rec_moves_left, in_self, index>>

NextRecursion == GrowInput \/ NarrowInput \/ EnterPathsTo \/ Recurse \/ Retain

SpecRecursion == InitPathsTo /\ [][NextRecursion]_vars

\* the histories of the states reached from s by r legal moves
RECURSIVE LegalSeqs(_, _)
LegalSeqs(s, r) ==
    IF r = 0 THEN { s.history }
    ELSE UNION { LegalSeqs(Derived(s, c), r - 1) : c \in LegalCells(s) }

\* the histories that extend a state of the argument frontier by r legal moves
LegalSeqsFrom(frontier, r) ==
    UNION { LegalSeqs(frontier[i], r) : i \in 1 .. Len(frontier) }

Histories(frontier) == { frontier[k].history : k \in 1 .. Len(frontier) }

\* C18: for an argument frontier with pairwise distinct histories, the
\* vector of every activation of paths_to(frontier, target, n) holds exactly
\* one state for each sequence of legal moves that extends an argument
\* state, and the returned vector holds exactly one state for each such
\* sequence of n moves that ends at target: no two returned states have the
\* same history, and histories over the same set of cells stay apart.
C18_EverySequenceOnce ==
    pc = "running" =>
        LET seqs == LegalSeqsFrom(flows, in_moves_left - rec_moves_left)
        IN  /\ Histories(ps) = seqs
            /\ Len(ps) = Cardinality(seqs)
C18_RetainKeepsAll ==
    pc' = "returned" =>
        LET ending == { h \in Histories(ps) : h[Len(h)] = in_destination' }
        IN  /\ Histories(ps') = ending
            /\ Len(ps') = Cardinality(ending)
            /\ \A k \in 1 .. Len(ps') : ps'[k].current_position = in_destination'
C18_ExhaustiveNoDedup == []C18_EverySequenceOnce /\ [][C18_RetainKeepsAll]_vars

\* a call on a frontier of two states returns two states with one board
\* and different histories
C18_Witness ==
    /\ pc = "returned"
    /\ Len(flows) > 1
    /\ \E j, k \in 1 .. Len(ps) :
          /\ ps[j].board = ps[k].board
          /\ ps[j].history # ps[k].history
          /\ ps[j].history[2] # ps[k].history[2]
====
